---------------------------- MODULE Spec2Model ----------------------------
(***************************************************************************)
(* Model of src/main.py: the FastAPI service "Biomass Optimizer API".      *)
(*                                                                         *)
(* Module-level code of main.py runs once, top to bottom, when the module  *)
(* is imported: init_db(), the CSV load (lines 66-72), the construction of *)
(* the interpolator (lines 74-87) and, last, uvicorn.run (lines 227-229).  *)
(* After that the endpoints run, each request on a worker thread (FastAPI  *)
(* runs "def" endpoints in a thread pool), so handlers interleave at their *)
(* database transactions.                                                  *)
(*                                                                         *)
(* Numbers.  A Python float is modelled as a record [k, n, d]: k = "fin"   *)
(* is the exact rational n/d (d > 0, in lowest terms); k = "nan", "inf",   *)
(* "-inf" are the non-finite floats; k = "str" is a CSV cell that is not a *)
(* number.  Arithmetic on finite values is exact, so the rounding error of *)
(* the floating-point solve is not part of the model.                      *)
(***************************************************************************)
EXTENDS Integers, Sequences, FiniteSets

(***************************************************************************)
(* Floats                                                                  *)
(***************************************************************************)
Abs(a) == IF a < 0 THEN -a ELSE a

RECURSIVE GCD(_, _)
GCD(a, b) == IF b = 0 THEN a ELSE GCD(b, a % b)

Norm(n, d) ==
    LET g == GCD(Abs(n), d)
    IN  [k |-> "fin", n |-> n \div g, d |-> d \div g]

Fin(i) == [k |-> "fin", n |-> i, d |-> 1]
NaN == [k |-> "nan", n |-> 0, d |-> 1]
PosInf == [k |-> "inf", n |-> 0, d |-> 1]
NegInf == [k |-> "-inf", n |-> 0, d |-> 1]
Text == [k |-> "str", n |-> 0, d |-> 1]

IsFinite(v) == v.k = "fin"

RMul(a, b) ==
    LET g1 == GCD(Abs(a.n), b.d)
        g2 == GCD(Abs(b.n), a.d)
        h1 == IF g1 = 0 THEN 1 ELSE g1
        h2 == IF g2 = 0 THEN 1 ELSE g2
    IN  Norm((a.n \div h1) * (b.n \div h2), (a.d \div h2) * (b.d \div h1))

RAdd(a, b) ==
    LET g == GCD(a.d, b.d)
        l == (a.d \div g) * b.d
    IN  Norm(a.n * (l \div a.d) + b.n * (l \div b.d), l)

RNeg(a) == [k |-> "fin", n |-> -a.n, d |-> a.d]
RSub(a, b) == RAdd(a, RNeg(b))
RInv(a) == IF a.n > 0 THEN [k |-> "fin", n |-> a.d, d |-> a.n]
                      ELSE [k |-> "fin", n |-> -a.d, d |-> -a.n]
RDiv(a, b) == RMul(a, RInv(b))

(***************************************************************************)
(* round(x, 2), line 139.  Python rounds the value of the float correctly  *)
(* to the nearest multiple of 0.01, a tie going to the even neighbour;     *)
(* round(nan, 2) is nan and round(inf, 2) is inf.                          *)
(***************************************************************************)
RoundHalfEven(a, d) ==
    LET q == a \div d
        r == a % d
    IN  IF 2 * r > d THEN q + 1
        ELSE IF 2 * r < d THEN q
        ELSE IF q % 2 = 0 THEN q ELSE q + 1

Round2(v) ==
    IF ~IsFinite(v) THEN v
    ELSE LET m == RoundHalfEven(Abs(v.n) * 100, v.d)
         IN  Norm(IF v.n < 0 THEN -m ELSE m, 100)

(***************************************************************************)
(* scipy.interpolate.RBFInterpolator(X, y, kernel='thin_plate_spline',     *)
(* smoothing=0.0), line 84.  With this kernel the interpolant is           *)
(*     s(x) = SUM_j w_j phi(|x - x_j|) + c_0 + SUM_k c_k x_k               *)
(* and the constructor solves the (N+5) x (N+5) system                     *)
(*     [ K + smoothing*I   P ] [w]   [y]                                   *)
(*     [ P^T               0 ] [c] = [0]                                   *)
(* K[i][j] = phi(|x_i - x_j|), P[i] = (1, x_i1, .., x_i4).  It raises      *)
(* ValueError when the data is not numeric or there are fewer points than  *)
(* monomials, and LinAlgError when the system is singular.                 *)
(***************************************************************************)
NDim == 4
NMonomials == NDim + 1

RECURSIVE FloorLog2(_)
FloorLog2(m) == IF m < 2 THEN 0 ELSE 1 + FloorLog2(m \div 2)

(***************************************************************************)
(* phi(r) = r^2 log r, phi(0) = 0, as a function of d2 = r^2 (an integer,  *)
(* the model's points having integer coordinates).  The value is           *)
(* d2 * L(d2), L(d2) = 2e + (2(d2 - 2^e)) \div 2^e with e = FloorLog2(d2):  *)
(* L is 2 log2(d2) made piecewise linear between the powers of two, in     *)
(* half steps.  The base of the logarithm and the factor only scale the    *)
(* weights w, not the interpolant.                                         *)
(***************************************************************************)
thin_plate_spline(d2) ==
    IF d2 = 0 THEN 0
    ELSE LET e == FloorLog2(d2)
         IN  d2 * (2 * e + (2 * (d2 - 2^e)) \div (2^e))

RECURSIVE SumTo(_, _)
SumTo(f, m) == IF m = 0 THEN 0 ELSE f[m] + SumTo(f, m - 1)

\* |a - b|^2 of two points with integer coordinates
SqDist(a, b) == SumTo([k \in 1..NDim |-> (a[k].n - b[k].n) * (a[k].n - b[k].n)], NDim)

Zero == Fin(0)
One == Fin(1)

\* The augmented matrix [lhs | rhs] of the system, as a function on
\* (1..n+5) x (1..n+6).
BuildSystem(Xa, ya, smoothing) ==
    LET n == Len(Xa)
        Entry(i, j) ==
            IF i <= n
            THEN IF j <= n
                 THEN RAdd(Fin(thin_plate_spline(SqDist(Xa[i], Xa[j]))),
                           IF i = j THEN smoothing ELSE Zero)
                 ELSE IF j = n + 1 THEN One
                 ELSE IF j <= n + NMonomials THEN Xa[i][j - n - 1]
                 ELSE ya[i]
            ELSE IF j <= n
                 THEN IF i = n + 1 THEN One ELSE Xa[j][i - n - 1]
                 ELSE Zero
    IN  [i \in 1..(n + NMonomials) |->
            [j \in 1..(n + NMonomials + 1) |-> Entry(i, j)]]

\* TLC evaluates a function constructor lazily; comparing it makes it a
\* table, so that an entry is computed once.
Table(f) == IF f = f THEN f ELSE f

\* Gauss-Jordan elimination of column c of an N x (N+1) matrix, exact
\* arithmetic, the pivot being the first row from c with a nonzero entry.
\* The exact solution does not depend on the choice of pivot.
RECURSIVE Eliminate(_, _, _)
Eliminate(M, c, N) ==
    IF c > N THEN [ok |-> TRUE, m |-> M]
    ELSE LET cand == {r \in c..N : M[r][c].n # 0}
         IN  IF cand = {} THEN [ok |-> FALSE, m |-> M]
             ELSE LET p == CHOOSE r \in cand : \A s \in cand : r <= s
                      prow == Table([j \in 1..(N + 1) |-> RDiv(M[p][j], M[p][c])])
                      Src(r) == IF r = c THEN p ELSE IF r = p THEN c ELSE r
                      M2 == Table([r \in 1..N |->
                               IF r = c THEN prow
                               ELSE LET f == M[Src(r)][c]
                                    IN  IF f.n = 0 THEN M[Src(r)]
                                        ELSE [j \in 1..(N + 1) |->
                                                RSub(M[Src(r)][j], RMul(f, prow[j]))]])
                  IN  Eliminate(M2, c + 1, N)

Solve(A) ==
    LET N == Len(A)
        res == Eliminate(Table(A), 1, N)
    IN  [ok |-> res.ok,
         x |-> IF res.ok THEN [i \in 1..N |-> res.m[i][N + 1]] ELSE <<>>]

IsNumeric(v) == v.k # "str"

\* The constructor: [raised |-> the exception's name, or "" for none,
\* value |-> the interpolator].
RBFInterpolator(Xa, ya, smoothing) ==
    IF (\E i \in 1..Len(Xa) : \E k \in 1..NDim : ~IsNumeric(Xa[i][k]))
       \/ (\E i \in 1..Len(ya) : ~IsNumeric(ya[i]))
    THEN [raised |-> "ValueError", value |-> <<>>]
    ELSE IF Len(Xa) < NMonomials
    THEN [raised |-> "ValueError", value |-> <<>>]
    ELSE LET sol == Solve(BuildSystem(Xa, ya, smoothing))
         IN  IF ~sol.ok THEN [raised |-> "LinAlgError", value |-> <<>>]
             ELSE [raised |-> "",
                   value |-> [tag |-> "RBFInterpolator", y |-> Xa, coeffs |-> sol.x]]

RECURSIVE RSum(_, _)
RSum(f, m) == IF m = 0 THEN Zero ELSE RAdd(f[m], RSum(f, m - 1))

\* interpolator(input_point)[0], line 136.  A non-finite coordinate makes
\* every kernel value infinite; the weights sum to zero (last row of the
\* system), so the kernel sum is 0*inf or inf - inf, which is nan.
Evaluate(model, q) ==
    IF \E k \in 1..NDim : ~IsFinite(q[k]) THEN NaN
    ELSE LET n == Len(model.y)
             kern == RSum([j \in 1..n |->
                        RMul(model.coeffs[j],
                             Fin(thin_plate_spline(SqDist(q, model.y[j]))))], n)
             poly == RSum([k \in 1..NDim |-> RMul(model.coeffs[n + 1 + k], q[k])], NDim)
         IN  RAdd(RAdd(kern, poly), model.coeffs[n + 1])

(***************************************************************************)
(* The file sample_data.csv that the process finds when it starts.         *)
(***************************************************************************)
AllColumns == {"fuel_price", "commodity_cost", "energy_price", "weather_index",
               "output_metric"}

Row(a, b, c, d, o) ==
    [fuel_price |-> Fin(a), commodity_cost |-> Fin(b), energy_price |-> Fin(c),
     weather_index |-> Fin(d), output_metric |-> Fin(o)]

\* The six points of the end-to-end scenario (spec.md section 8)
SpecRows ==
    << Row(1, 1, 1, 1, 10), Row(2, 1, 1, 1, 12), Row(1, 2, 1, 1, 11),
       Row(1, 1, 2, 1, 13), Row(1, 1, 1, 2, 9), Row(3, 3, 3, 3, 20) >>

\* Six distinct points that do not lie on one affine function
CurvedRows == SubSeq(SpecRows, 1, 5) \o << Row(2, 2, 1, 1, 14) >>

\* Six rows, the last repeating the inputs of the first
DuplicateRows == SubSeq(SpecRows, 1, 5) \o << Row(1, 1, 1, 1, 10) >>

\* Six distinct points with one weather_index: they span no 4-simplex
FlatRows ==
    << Row(1, 1, 1, 1, 10), Row(2, 1, 1, 1, 12), Row(1, 2, 1, 1, 11),
       Row(1, 1, 2, 1, 13), Row(2, 2, 1, 1, 14), Row(2, 1, 2, 1, 15) >>

\* A row whose energy_price cell is text
TextRows == SubSeq(SpecRows, 1, 5) \o << [Row(3, 3, 3, 3, 20) EXCEPT !.energy_price = Text] >>

Without(rows, col) ==
    [i \in 1..Len(rows) |-> [c \in AllColumns \ {col} |-> rows[i][c]]]

File(columns, rows) == [file |-> "ok", columns |-> columns, rows |-> rows]
NoFile(why) == [file |-> why, columns |-> {}, rows |-> <<>>]

CsvFiles ==
    { NoFile("missing"), NoFile("unreadable"), NoFile("unparsable"),
      File(AllColumns, <<>>),
      File(AllColumns, SubSeq(SpecRows, 1, 1)),
      File(AllColumns, SubSeq(SpecRows, 1, 4)),
      File(AllColumns, SubSeq(SpecRows, 1, 5)),
      File(AllColumns, SpecRows),
      File(AllColumns, CurvedRows),
      File(AllColumns, DuplicateRows),
      File(AllColumns, FlatRows),
      File(AllColumns, TextRows),
      File(AllColumns \ {"output_metric"}, Without(SpecRows, "output_metric")),
      File(AllColumns \ {"weather_index"}, Without(SpecRows, "weather_index")) }

(***************************************************************************)
(* The query points of /calculate.  FastAPI parses "nan" and "inf" as      *)
(* floats, so a non-finite value reaches the handler.                      *)
(***************************************************************************)
\* np.array([[fuel_price, commodity_cost, energy_price, weather_index]]),
\* line 133
input_point(fuel_price, commodity_cost, energy_price, weather_index) ==
    << fuel_price, commodity_cost, energy_price, weather_index >>

Pt(a, b, c, d) == input_point(Fin(a), Fin(b), Fin(c), Fin(d))

Queries ==
    { Pt(1, 1, 1, 1), Pt(2, 2, 2, 2), Pt(100, 100, 100, 100),
      input_point(NaN, Fin(1), Fin(1), Fin(1)),
      input_point(Fin(1), Fin(1), Fin(1), PosInf),
      input_point(Fin(1), NegInf, Fin(1), Fin(1)) }

Workers == {"w1", "w2"}

\* The calculate requests one run accepts
MaxCalls == 2

(***************************************************************************)
(* State                                                                   *)
(***************************************************************************)
VARIABLES
    pc,               \* where the module-level code stands: "init_db", "load",
                      \* "fit", "main", then "serving"; "terminated" after an
                      \* uncaught exception
    csv,              \* the file sample_data.csv
    df,               \* global df (lines 68, 72)
    X, y,             \* globals X, y (lines 79, 80)
    interpolator,     \* global interpolator (lines 75, 84)
    calculations,     \* the table of biomass_results.db
    sqlite_sequence,  \* the last id AUTOINCREMENT has given
    req,              \* per worker thread, the calculate call it is running
    calls,            \* calculate requests accepted so far
    returned,         \* history: what every finished calculate call did
    reply             \* the last response of a /results endpoint

vars == << pc, csv, df, X, y, interpolator, calculations, sqlite_sequence,
           req, calls, returned, reply >>

None == [tag |-> "None"]
Unbound == [tag |-> "unbound"]
Absent == [k |-> "absent", n |-> 0, d |-> 1]
Idle == [st |-> "idle", q |-> <<>>, raw |-> Absent, out |-> Absent]
NoRow == [id |-> 0, q |-> <<>>, calculated_output |-> Absent]
NoReply == [op |-> "", message |-> "", rows |-> <<>>]

Init ==
    /\ pc = "init_db"
    /\ csv \in CsvFiles
    /\ df = Unbound
    /\ X = Unbound
    /\ y = Unbound
    /\ interpolator = Unbound
    /\ calculations = [exists |-> FALSE, rows |-> <<>>]
    /\ sqlite_sequence = 0
    /\ req = [w \in Workers |-> Idle]
    /\ calls = 0
    /\ returned = {}
    /\ reply = NoReply

(***************************************************************************)
(* Startup: the module-level statements, in order                          *)
(***************************************************************************)
\* init_db(), lines 23-40, called at line 55
init_db ==
    /\ pc = "init_db"
    /\ calculations' = [calculations EXCEPT !.exists = TRUE]
    /\ pc' = "load"
    /\ UNCHANGED << csv, df, X, y, interpolator, sqlite_sequence, req, calls,
                    returned, reply >>

\* pd.read_csv("sample_data.csv"), line 68
read_csv(f) ==
    IF f.file = "missing" THEN [raised |-> "FileNotFoundError", value |-> None]
    ELSE IF f.file = "unreadable" THEN [raised |-> "PermissionError", value |-> None]
    ELSE IF f.file = "unparsable" THEN [raised |-> "ParserError", value |-> None]
    ELSE [raised |-> "",
          value |-> [tag |-> "DataFrame", columns |-> f.columns, rows |-> f.rows]]

\* The exceptions the try statement of lines 67-72 handles
LoadHandles(exc) == exc = "FileNotFoundError"

\* Lines 66-72
LoadCsv ==
    /\ pc = "load"
    /\ LET r == read_csv(csv)
       IN  IF r.raised = "" THEN df' = r.value /\ pc' = "fit"
           ELSE IF LoadHandles(r.raised) THEN df' = None /\ pc' = "fit"
           ELSE df' = df /\ pc' = "terminated"
    /\ UNCHANGED << csv, X, y, interpolator, calculations, sqlite_sequence, req,
                    calls, returned, reply >>

ndarray(a) == [tag |-> "ndarray", a |-> a]

\* The columns line 79 selects, in a different order from line 133
FeatureColumnsSwapped ==
    <<"commodity_cost", "fuel_price", "energy_price", "weather_index">>

\* df[["fuel_price", "commodity_cost", "energy_price", "weather_index"]],
\* line 79
FeatureColumns == <<"fuel_price", "commodity_cost", "energy_price", "weather_index">>

\* A smoothing that is not zero
smoothing_positive == Fin(2)

\* smoothing=0.0, line 84
smoothing == Zero

\* Lines 75-87: the values of X, y and interpolator when the try statement
\* is left.  A column that is absent raises KeyError at line 79 or 80; every
\* exception is handled at line 86 and leaves interpolator None.
BuildInterpolator(frame) ==
    IF frame = None \/ Len(frame.rows) = 0
    THEN [X |-> Unbound, y |-> Unbound, interpolator |-> None]
    ELSE IF \E k \in 1..NDim : FeatureColumns[k] \notin frame.columns
    THEN [X |-> Unbound, y |-> Unbound, interpolator |-> None]
    ELSE LET Xv == [i \in 1..Len(frame.rows) |->
                      [k \in 1..NDim |-> frame.rows[i][FeatureColumns[k]]]]
         IN  IF "output_metric" \notin frame.columns
             THEN [X |-> ndarray(Xv), y |-> Unbound, interpolator |-> None]
             ELSE LET yv == [i \in 1..Len(frame.rows) |-> frame.rows[i]["output_metric"]]
                      r == RBFInterpolator(Xv, yv, smoothing)
                  IN  [X |-> ndarray(Xv), y |-> ndarray(yv),
                       interpolator |-> IF r.raised = "" THEN r.value ELSE None]

\* Lines 74-87
PrepareInterpolator ==
    /\ pc = "fit"
    /\ LET b == BuildInterpolator(df)
       IN  X' = b.X /\ y' = b.y /\ interpolator' = b.interpolator
    /\ pc' = "main"
    /\ UNCHANGED << csv, df, calculations, sqlite_sequence, req, calls, returned,
                    reply >>

\* uvicorn.run(app, ...), lines 227-229: the server starts once the
\* module-level code above has run
RunServer ==
    /\ pc = "main"
    /\ pc' = "serving"
    /\ UNCHANGED << csv, df, X, y, interpolator, calculations, sqlite_sequence,
                    req, calls, returned, reply >>

\* A server that takes requests while the module-level code still runs
AcceptingAlways == TRUE

\* Whether the server hands requests to the endpoints
Accepting == pc = "serving"

(***************************************************************************)
(* GET /calculate, lines 100-159.  The handler reads the global            *)
(* interpolator, evaluates and rounds (lines 122-139), then runs           *)
(* store_result (line 142), whose INSERT commits as one transaction.       *)
(* Handlers of different worker threads interleave between the two.        *)
(***************************************************************************)
\* What a finished call did: its response (error, the echoed inputs q,
\* calculated_output), whether the interpolator was evaluated, the value
\* before rounding, and the row it committed.
Finished(q, error, out, evaluated, raw, row) ==
    [q |-> q, error |-> error, calculated_output |-> out,
     evaluated |-> evaluated, raw |-> raw, row |-> row]

\* Line 122 left out
NotReadyNever(interp) == FALSE

\* Line 122
NotReady(interp) == interp = None

\* Lines 122-139
calculate_begin(w, q) ==
    /\ Accepting
    /\ req[w].st = "idle"
    /\ calls < MaxCalls
    /\ calls' = calls + 1
    /\ IF interpolator = Unbound
       THEN \* the name is not bound yet: NameError, outside the try statement
            /\ returned' = returned \cup
                   {Finished(q, "NameError", Absent, FALSE, Absent, NoRow)}
            /\ req' = req
       ELSE IF NotReady(interpolator)
       THEN /\ returned' = returned \cup
                   {Finished(q, "Interpolator not initialized", Absent, FALSE,
                             Absent, NoRow)}
            /\ req' = req
       ELSE IF interpolator = None
       THEN \* line 136 calls None: TypeError, answered by lines 152-159
            /\ returned' = returned \cup
                   {Finished(q, "'NoneType' object is not callable", Absent, FALSE,
                             Absent, NoRow)}
            /\ req' = req
       ELSE LET raw == Evaluate(interpolator, q)
            IN  /\ req' = [req EXCEPT ![w] =
                              [st |-> "store", q |-> q, raw |-> raw, out |-> Round2(raw)]]
                /\ returned' = returned
    /\ UNCHANGED << pc, csv, df, X, y, interpolator, calculations,
                    sqlite_sequence, reply >>

\* Line 142 passing the value of line 136, not that of line 139
StoredValueUnrounded(r) == r.raw

\* The value line 142 passes to store_result as calculated_output
StoredValue(r) == r.out

\* sqlite3 binds a nan as NULL, and every column is NOT NULL (lines 30-35)
BindsNull(v) == v.k = "nan"

\* An id column without AUTOINCREMENT: the largest rowid in the table plus one
RowidPlusOne(rows, seq) == IF rows = <<>> THEN 1 ELSE rows[Len(rows)].id + 1

\* id INTEGER PRIMARY KEY AUTOINCREMENT, line 29: one more than the largest
\* id the table ever held, which sqlite keeps in sqlite_sequence
AUTOINCREMENT(rows, seq) == seq + 1

\* An INSERT OR REPLACE on a table with a single slot
InsertReplacing(rows, row) == << row >>

\* INSERT INTO calculations, lines 47-50, committed at line 51
INSERT(rows, row) == Append(rows, row)

\* store_result, lines 42-52, then lines 144-150; or the INSERT raises
\* IntegrityError and lines 152-159 answer with the error
calculate_store(w) ==
    /\ req[w].st = "store"
    /\ LET r == req[w]
           v == StoredValue(r)
           row == [id |-> AUTOINCREMENT(calculations.rows, sqlite_sequence),
                   q |-> r.q, calculated_output |-> v]
       IN  IF BindsNull(v) \/ \E k \in 1..NDim : BindsNull(r.q[k])
           THEN /\ returned' = returned \cup
                       {Finished(r.q, "NOT NULL constraint failed", Absent, TRUE,
                                 r.raw, NoRow)}
                /\ UNCHANGED << calculations, sqlite_sequence >>
           ELSE /\ calculations' = [calculations EXCEPT !.rows = INSERT(@, row)]
                /\ sqlite_sequence' = row.id
                /\ returned' = returned \cup
                       {Finished(r.q, "", r.out, TRUE, r.raw, row)}
    /\ req' = [req EXCEPT ![w] = Idle]
    /\ UNCHANGED << pc, csv, df, X, y, interpolator, calls, reply >>

\* A store_result that raises after its commit: the record is in the table
\* and lines 152-159 answer with the error
calculate_store_error_committed(w) ==
    /\ req[w].st = "store"
    /\ LET r == req[w]
           row == [id |-> sqlite_sequence + 1, q |-> r.q,
                   calculated_output |-> StoredValue(r)]
       IN  /\ calculations' = [calculations EXCEPT !.rows = Append(@, row)]
           /\ sqlite_sequence' = sqlite_sequence + 1
           /\ returned' = returned \cup
                  {Finished(r.q, "database is locked", Absent, TRUE, r.raw, NoRow)}
    /\ req' = [req EXCEPT ![w] = Idle]
    /\ UNCHANGED << pc, csv, df, X, y, interpolator, calls, reply >>

\* store_result raises sqlite3.OperationalError (the database is locked by
\* another connection, or cannot be written); lines 152-159 answer with it
calculate_store_error(w) ==
    /\ req[w].st = "store"
    /\ returned' = returned \cup
           {Finished(req[w].q, "database is locked", Absent, TRUE, req[w].raw, NoRow)}
    /\ req' = [req EXCEPT ![w] = Idle]
    /\ UNCHANGED << pc, csv, df, X, y, interpolator, calculations,
                    sqlite_sequence, calls, reply >>

(***************************************************************************)
(* The /results endpoints, each one SQL statement                          *)
(***************************************************************************)
\* dict(row): the columns the SELECT names, which leave out the id
RowDict(r) == [q |-> r.q, calculated_output |-> r.calculated_output]

\* LIMIT 100, line 203
HistoryLimit == 100

\* ORDER BY id ASC LIMIT n
OldestFirst(rows, n) ==
    [k \in 1..(IF n < Len(rows) THEN n ELSE Len(rows)) |-> RowDict(rows[k])]

\* ORDER BY id DESC LIMIT n
RECURSIVE NewestFirst(_, _)
NewestFirst(rows, n) ==
    IF n = 0 \/ rows = <<>> THEN <<>>
    ELSE << RowDict(rows[Len(rows)]) >>
         \o NewestFirst(SubSeq(rows, 1, Len(rows) - 1), n - 1)

\* What lines 175-187 answer on a table holding rows
latest_response(rows) ==
    IF rows = <<>>
    THEN [op |-> "latest", message |-> "No results yet", rows |-> <<>>]
    ELSE [op |-> "latest", message |-> "", rows |-> NewestFirst(rows, 1)]

\* GET /results/latest, lines 168-189
get_latest_result ==
    /\ Accepting
    /\ reply' = latest_response(calculations.rows)
    /\ UNCHANGED << pc, csv, df, X, y, interpolator, calculations,
                    sqlite_sequence, req, calls, returned >>

\* GET /results/history, lines 192-210
get_results_history ==
    /\ Accepting
    /\ reply' = [op |-> "history", message |-> "",
                 rows |-> NewestFirst(calculations.rows, HistoryLimit)]
    /\ UNCHANGED << pc, csv, df, X, y, interpolator, calculations,
                    sqlite_sequence, req, calls, returned >>

\* A clear that also drops the fitted model
clear_results_resets ==
    /\ Accepting
    /\ calculations' = [calculations EXCEPT !.rows = <<>>]
    /\ interpolator' = None
    /\ reply' = [op |-> "clear", message |-> "Database cleared", rows |-> <<>>]
    /\ UNCHANGED << pc, csv, df, X, y, sqlite_sequence, req, calls, returned >>

\* GET /results/clear, lines 213-224
clear_results ==
    /\ Accepting
    /\ calculations' = [calculations EXCEPT !.rows = <<>>]
    /\ reply' = [op |-> "clear", message |-> "Database cleared", rows |-> <<>>]
    /\ UNCHANGED << pc, csv, df, X, y, interpolator, sqlite_sequence, req, calls,
                    returned >>

Next ==
    \/ init_db
    \/ LoadCsv
    \/ PrepareInterpolator
    \/ RunServer
    \/ \E w \in Workers : \E q \in Queries : calculate_begin(w, q)
    \/ \E w \in Workers : calculate_store(w)
    \/ \E w \in Workers : calculate_store_error(w)
    \/ get_latest_result
    \/ get_results_history
    \/ clear_results

Spec == Init /\ [][Next]_vars

\* The table an earlier run of the service left in biomass_results.db: n
\* records with the ids 1..n, which CREATE TABLE IF NOT EXISTS (line 27) keeps
EarlierLog(n) ==
    [i \in 1..n |-> [id |-> i, q |-> Pt(1, 1, 1, 1), calculated_output |-> Fin(i)]]

\* The service starts on the six points of sample_data.csv and on the
\* database file of an earlier run, whose log is one record short of the
\* limit of results/history, or right at it
InitRestart ==
    /\ pc = "init_db"
    /\ csv = File(AllColumns, SpecRows)
    /\ df = Unbound
    /\ X = Unbound
    /\ y = Unbound
    /\ interpolator = Unbound
    /\ \E n \in {HistoryLimit - 1, HistoryLimit} :
           /\ calculations = [exists |-> TRUE, rows |-> EarlierLog(n)]
           /\ sqlite_sequence = n
    /\ req = [w \in Workers |-> Idle]
    /\ calls = 0
    /\ returned = {}
    /\ reply = NoReply

SpecRestart == InitRestart /\ [][Next]_vars

(***************************************************************************)
(* Properties                                                              *)
(***************************************************************************)
Started == pc \in {"main", "serving"}
Ready == interpolator.tag = "RBFInterpolator"

HasText(f) ==
    \E i \in 1..Len(f.rows) : \E c \in f.columns : ~IsNumeric(f.rows[i][c])

\* The input vector of a row of the file, by column name
TrainingInput(row) ==
    input_point(row["fuel_price"], row["commodity_cost"], row["energy_price"],
                row["weather_index"])

HasDuplicateInputs(f) ==
    \E i, j \in 1..Len(f.rows) :
        i # j /\ TrainingInput(f.rows[i]) = TrainingInput(f.rows[j])

\* A file with every column, every cell a number and at least one row
WellFormed(f) ==
    f.file = "ok" /\ f.columns = AllColumns /\ ~HasText(f) /\ Len(f.rows) > 0

SpecFile == File(AllColumns, SpecRows)
FiveFile == File(AllColumns, SubSeq(SpecRows, 1, 5))

\* C1 (as claimed): every startup failure (file missing, file unreadable or
\* unparsable, column absent, non-numeric cell, no rows, fit failure) leaves
\* the process running with interpolator None; none terminates the process.
C1_StartupFailureKeepsProcessRunning ==
    /\ pc # "terminated"
    /\ (Started /\ (~WellFormed(csv) \/ HasDuplicateInputs(csv)))
           => interpolator = None

C3_ExactInterpolation ==
    /\ (Started /\ Ready) =>
           \A i \in 1..Len(csv.rows) :
               Evaluate(interpolator, TrainingInput(csv.rows[i]))
                   = csv.rows[i]["output_metric"]
    /\ csv = SpecFile =>
           /\ \A w \in Workers :
                  (req[w].st = "store" /\ req[w].q = Pt(1, 1, 1, 1))
                      => req[w].out = Fin(10)
           /\ \A c \in returned :
                  (c.q = Pt(1, 1, 1, 1) /\ c.error = "")
                      => c.calculated_output = Fin(10)

\* C3 witness: on the six points of the scenario a calculate(1,1,1,1) has
\* returned 10.00.
C3_Witness ==
    /\ csv = SpecFile
    /\ \E c \in returned : c.q = Pt(1, 1, 1, 1) /\ c.calculated_output = Fin(10)

\* C4: once startup is over, no request changes the interpolator or the
\* training arrays.
C4_ModelNeverMutated ==
    [][Started => (interpolator' = interpolator /\ X' = X /\ y' = y)]_vars

\* C4 witness: a ready engine has answered a calculate call and a /results
\* request.
C4_Witness == pc = "serving" /\ Ready /\ returned # {} /\ reply.op = "clear"

NonFinite(q) == \E k \in 1..NDim : ~IsFinite(q[k])

\* C5 (as claimed): with a ready engine, two calculate calls with the same
\* inputs return the same result: both the same calculated_output, or both
\* none.
C5_SameInputsSameResult ==
    Ready => \A a, b \in returned :
                 a.q = b.q => a.calculated_output = b.calculated_output

\* C6: while the engine is not ready every calculate call answers
\* "Interpolator not initialized" without evaluating and without a record,
\* and an engine that ended startup not ready stays not ready.
C6_NotReadyStaysNotReady ==
    /\ []((pc = "serving" /\ interpolator = None) =>
              /\ \A c \in returned :
                     /\ c.error = "Interpolator not initialized"
                     /\ ~c.evaluated
                     /\ c.calculated_output = Absent
                     /\ c.row = NoRow
              /\ \A w \in Workers : req[w].st = "idle"
              /\ calculations.rows = <<>>
              /\ sqlite_sequence = 0)
    /\ [][(Started /\ interpolator = None) => interpolator' = None]_vars

\* C6 witness: an engine that is not ready has answered a calculate call.
C6_Witness == pc = "serving" /\ interpolator = None /\ returned # {}

\* C7 (as claimed): with a ready engine, a call with a non-finite input is
\* rejected as InvalidInput before the interpolator is evaluated, returns no
\* calculated_output and appends no record.
C7_NonFiniteRejectedBeforeEvaluation ==
    Ready =>
        /\ \A w \in Workers : req[w].st = "store" => ~NonFinite(req[w].q)
        /\ \A c \in returned :
               NonFinite(c.q) => /\ ~c.evaluated
                                 /\ c.error = "InvalidInput"
                                 /\ c.calculated_output = Absent
                                 /\ c.row = NoRow

\* C8 (as claimed): with a ready engine and four finite inputs, calculate
\* returns no error but a finite calculated_output, also when store_result
\* cannot complete.
C8_FiniteInputsNeverFail ==
    Ready => \A c \in returned :
                 ~NonFinite(c.q) => /\ c.error = ""
                                    /\ IsFinite(c.calculated_output)

\* v is a multiple of 0.01
TwoDecimals(v) == IsFinite(v) /\ 100 % v.d = 0

\* |a - b| <= 1/200
WithinHalfCent(a, b) == 200 * Abs(a.n * b.d - b.n * a.d) <= a.d * b.d

\* C9: every calculated_output returned is the interpolated value rounded to
\* two decimals, and the log holds that rounded value.
C9_RoundingContract ==
    /\ \A c \in returned :
           c.error = "" => /\ TwoDecimals(c.calculated_output)
                           /\ WithinHalfCent(c.calculated_output, c.raw)
                           /\ c.row.calculated_output = c.calculated_output
    /\ \A i \in 1..Len(calculations.rows) :
           TwoDecimals(calculations.rows[i].calculated_output)

\* C9 witness: a call returned and logged a value that rounding changed.
C9_Witness ==
    \E c \in returned :
        /\ c.error = ""
        /\ c.raw # c.calculated_output
        /\ \E i \in 1..Len(calculations.rows) : calculations.rows[i] = c.row

\* C10: a calculate call runs only when the module-level code is over: the
\* load and the fit are done and the interpolator is None or whole.
C10_StartupBeforeCalculate ==
    (calls > 0 \/ returned # {} \/ \E w \in Workers : req[w].st # "idle") =>
        /\ pc = "serving"
        /\ df # Unbound
        /\ interpolator # Unbound
        /\ Ready => Len(interpolator.coeffs) = Len(X.a) + NMonomials

\* C10 witness: a calculate call is being handled by a ready engine.
C10_Witness == pc = "serving" /\ Ready /\ \E w \in Workers : req[w].st = "store"


\* s is the beginning of t: t holds every element of s, at its place
IsPrefix(s, t) == Len(s) <= Len(t) /\ \A i \in 1..Len(s) : t[i] = s[i]

\* C11 (as claimed): whatever operation the service runs, results/clear
\* included, every record of the log is still in the log afterwards,
\* unchanged.
C11_AppendOnlyAlways ==
    [][IsPrefix(calculations.rows, calculations'.rows)]_vars

\* C11 (amended): every step other than results/clear keeps every record of
\* the log, unchanged and at its place; results/clear removes them all.
C11_AppendOnlyExceptClear ==
    [][IsPrefix(calculations.rows, calculations'.rows) \/ clear_results]_vars

\* C11 witness: results/history answered with one record, a second record was
\* appended since, and the first one is still the first of the log.
C11_Witness ==
    /\ Len(calculations.rows) = 2
    /\ reply.op = "history"
    /\ reply.rows = << RowDict(calculations.rows[1]) >>


\* The calls that returned a calculated_output
Succeeded == {c \in returned : c.calculated_output # Absent}

\* The records of the log, as a set
Log == {calculations.rows[i] : i \in 1..Len(calculations.rows)}

\* C12: under every interleaving of the calls, a call returns a
\* calculated_output exactly when it committed a record, one record of its own
\* holding its four inputs and the output it returned, and the step that
\* returns it appends that record and nothing else; a call that returns an
\* error has no record and its step leaves the log as it was. The records ever
\* committed are as many as the calls that returned an output, and as long as
\* none of them was cleared the log holds exactly that many.
C12_OutputIffCommitted ==
    /\ [](/\ \A c \in returned :
                /\ (c.calculated_output # Absent) <=> (c.row # NoRow)
                /\ (c.error # "") <=> (c.row = NoRow)
                /\ c.row # NoRow => /\ c.row.q = c.q
                                    /\ c.row.calculated_output = c.calculated_output
          /\ \A a, b \in Succeeded : a # b => a.row.id # b.row.id
          /\ sqlite_sequence = Cardinality(Succeeded)
          /\ (\A c \in Succeeded : c.row \in Log) =>
                 Len(calculations.rows) = Cardinality(Succeeded))
    /\ [][\A c \in returned' \ returned :
              IF c.error = ""
              THEN calculations'.rows = Append(calculations.rows, c.row)
              ELSE calculations'.rows = calculations.rows]_vars

\* C12 witness: of two calls that reached store_result, one committed and
\* returned its output, the other returned an error, and the log holds one
\* record.
C12_Witness ==
    /\ Cardinality(Succeeded) = 1
    /\ \E c \in returned : c.error # "" /\ c.evaluated
    /\ Len(calculations.rows) = 1


\* The records committed by a calculate call and no longer in the log
Cleared == {c.row : c \in Succeeded} \ Log

=============================================================================
